---- MODULE Spec2Model ----
(***************************************************************************)
(* A model of the rf2 replay reader (src/replay.py, src/events.py,         *)
(* src/utils.py): opening a VCR file (plain or gzip), decoding the replay  *)
(* header, the driver list and the slices header, and the lazy events      *)
(* generator with its per-event decoders.                                  *)
(*                                                                         *)
(* Bytes are numbers 0..255, a file is a sequence of bytes, a file         *)
(* position is a 0-based offset.  A Python int read from the file is kept  *)
(* as its little-endian bit vector (a function from bit index to 0/1), so  *)
(* that 32-bit words keep all their bits; Val turns a bit vector into a    *)
(* number where the code uses it as a length or a count.                   *)
(***************************************************************************)
EXTENDS Integers, Sequences, FiniteSets, TLC

VARIABLES
    storage,    \* how the content was stored on disk: "plain" or "gzip"
    content,    \* the replay content before storing
    disk,       \* the bytes of the file on disk (file_path)
    vcr_file,   \* self.vcr_file: [kind, data, pos]
    pc,         \* position in Replay.__init__ and after
    info,       \* self.info
    drivers,    \* self.drivers
    gen,        \* the generator object made by the events property
    yielded,    \* the events the consumer has received so far
    trace,      \* per event read: file positions and decoder consumption
    error,      \* the exception that escaped the last call, or "none"
    locals,     \* locals of _read_replay_info: header, session_info (-1: unset)
    plan        \* the slices the content was built from

vars == <<storage, content, disk, vcr_file, pc, info, drivers, gen, yielded,
          trace, error, locals, plan>>

----------------------------------------------------------------------------
(* Bounds of the model *)

MaxPre == 3
MaxCut == 2
MaxEvents == 2
MaxSlices == 2

----------------------------------------------------------------------------
(* Bytes, sequences, Python's read() *)

Byte == 0..255

\* F of the value of x: x is evaluated once, as Python evaluates an argument
\* or the right-hand side of an assignment once
At(F(_), x) == CHOOSE y \in {F(v) : v \in {x}} : TRUE

Min(a, b) == IF a <= b THEN a ELSE b

Zeros(n) == [i \in 1..n |-> 0]

\* the bytes from pos to the end of data
Left(data, pos) == IF Len(data) > pos THEN Len(data) - pos ELSE 0

\* how many bytes read(n) delivers when left bytes remain: all of them when
\* n is negative, and no more than are left
Take(left, n) == IF n < 0 \/ n >= left THEN left ELSE n

\* file.read(n) at position pos: data[pos : pos + n], short at the end
ReadBytes(data, pos, n) == SubSeq(data, pos + 1, pos + Take(Left(data, pos), n))

\* the least element of a non-empty set of numbers
Least(S) == CHOOSE i \in S : \A j \in S : i <= j

\* bs.find(b): the index (0-based) of the first occurrence of byte b in bs,
\* -1 when absent
FirstOf(at) == IF at = {} THEN -1 ELSE Least(at) - 1

Find(bs, b) == FirstOf({i \in 1..Len(bs) : bs[i] = b})

\* int.from_bytes(bs, byteorder="little"): the bit vector of the number
FromBytesLE(bs) ==
    [i \in 0..(8 * Len(bs) - 1) |-> (bs[(i \div 8) + 1] \div (2 ^ (i % 8))) % 2]

Width(x) == Cardinality(DOMAIN x)

\* x >> k
Shr(x, k) == [i \in 0..(Width(x) - k - 1) |-> x[i + k]]

\* x & m for a mask m below 2^31
BitAnd(x, m) ==
    [i \in 0..(Min(Width(x), 31) - 1) |-> IF (m \div (2 ^ i)) % 2 = 1 THEN x[i] ELSE 0]

\* the number a bit vector stands for
RECURSIVE ValFrom(_, _)
ValFrom(x, i) ==
    IF i >= Width(x) THEN 0
    ELSE (IF x[i] = 1 THEN 2 ^ i ELSE 0) + ValFrom(x, i + 1)

Val(x) == At(LAMBDA v : ValFrom(v, 0), x)

\* what a reader returns: whether it returned at all (ok is FALSE where it
\* raises), the value, and the position of the file object afterwards
Got(ok, val, pos) == [ok |-> ok, val |-> val, pos |-> pos]

\* utils.read_integer: int.from_bytes(file.read(size), byteorder="little")
IntegerOf(pos, bs) == Got(TRUE, FromBytesLE(bs), pos + Len(bs))

read_integer(data, pos, size) ==
    At(LAMBDA bs : IntegerOf(pos, bs), ReadBytes(data, pos, size))

\* utils.read_float: float(int.from_bytes(...)), the same number as a float
FloatOf(pos, bs) == Got(TRUE, Val(FromBytesLE(bs)), pos + Len(bs))

read_float(data, pos, size) ==
    At(LAMBDA bs : FloatOf(pos, bs), ReadBytes(data, pos, size))

\* utils.read_float2: struct.unpack('<f', data) raises struct.error unless it
\* gets exactly 4 bytes; the float is kept as its IEEE-754 bit pattern
Float2Of(pos, bs) == Got(Len(bs) = 4, [f32 |-> FromBytesLE(bs)], pos + Len(bs))

read_float2(data, pos, size) ==
    At(LAMBDA bs : Float2Of(pos, bs), ReadBytes(data, pos, size))

\* utils.read_bytes
BytesOf(pos, bs) == Got(TRUE, bs, pos + Len(bs))

read_bytes(data, pos, size) ==
    At(LAMBDA bs : BytesOf(pos, bs), ReadBytes(data, pos, size))

\* raw_bytes[:raw_bytes.find(b'\x00')] when a NUL is present
CutAt(bs, i) == IF i = -1 THEN bs ELSE SubSeq(bs, 1, i)

NulTruncate(bs) == At(LAMBDA i : CutAt(bs, i), Find(bs, 0))

\* bytes.decode("utf-8")
IsCont(b) == b >= 128 /\ b <= 191

Utf8Extra(b) ==
    IF b <= 127 THEN 0
    ELSE IF b >= 194 /\ b <= 223 THEN 1
    ELSE IF b >= 224 /\ b <= 239 THEN 2
    ELSE IF b >= 240 /\ b <= 244 THEN 3
    ELSE -1

\* the sequence that starts at bs[i] with lead byte b and n continuation
\* bytes is well formed
Utf8SeqOk(bs, i, b, n) ==
    /\ n >= 0
    /\ i + n <= Len(bs)
    /\ \A j \in (i + 1)..(i + n) : IsCont(bs[j])
    /\ (b = 224 => bs[i + 1] >= 160)
    /\ (b = 237 => bs[i + 1] <= 159)
    /\ (b = 240 => bs[i + 1] >= 144)
    /\ (b = 244 => bs[i + 1] <= 143)

RECURSIVE Utf8Ok(_, _)
Utf8Ok(bs, i) ==
    IF i > Len(bs) THEN TRUE
    ELSE /\ Utf8SeqOk(bs, i, bs[i], Utf8Extra(bs[i]))
         /\ Utf8Ok(bs, i + Utf8Extra(bs[i]) + 1)

\* the code point of the sequence at bs[i] with lead byte b, n continuations
Utf8Point(bs, i, b, n) ==
    IF n = 0 THEN b
    ELSE IF n = 1 THEN (b - 192) * 64 + (bs[i + 1] - 128)
    ELSE IF n = 2 THEN (b - 224) * 4096 + (bs[i + 1] - 128) * 64 + (bs[i + 2] - 128)
    ELSE (b - 240) * 262144 + (bs[i + 1] - 128) * 4096
         + (bs[i + 2] - 128) * 64 + (bs[i + 3] - 128)

RECURSIVE Utf8Points(_, _)
Utf8Points(bs, i) ==
    IF i > Len(bs) THEN <<>>
    ELSE <<Utf8Point(bs, i, bs[i], Utf8Extra(bs[i]))>>
         \o Utf8Points(bs, i + Utf8Extra(bs[i]) + 1)

\* the str of bs, read up to position pos; ok is FALSE where Python raises
\* UnicodeDecodeError
Utf8Decode(bs, pos) ==
    IF Utf8Ok(bs, 1) THEN Got(TRUE, Utf8Points(bs, 1), pos)
    ELSE Got(FALSE, <<>>, pos)

StringOf(pos, raw_bytes) ==
    At(LAMBDA bs : Utf8Decode(bs, pos + Len(raw_bytes)), NulTruncate(raw_bytes))

\* utils.read_string: a length-prefixed, NUL-truncated UTF-8 string
StringAt(data, size) ==
    At(LAMBDA raw_bytes : StringOf(size.pos, raw_bytes),
       ReadBytes(data, size.pos, Val(size.val)))

read_string(data, pos, descriptor_length) ==
    At(LAMBDA size : StringAt(data, size), read_integer(data, pos, descriptor_length))

\* utils.read_bytes_as_string: a fixed-size, NUL-truncated UTF-8 field
read_bytes_as_string(data, pos, size) ==
    At(LAMBDA raw_bytes : StringOf(pos, raw_bytes), ReadBytes(data, pos, size))

\* A run of consecutive reads, as a handler makes them one after the other
\* on the same file object: each field is [kind, n], read where the one
\* before it ended.  ok is FALSE when one of the reads raises; the reads
\* after it are not made.
Field(kind, n) == [kind |-> kind, n |-> n]

ReadField(data, pos, f) ==
    CASE f.kind = "bytes"    -> read_bytes(data, pos, f.n)
      [] f.kind = "integer"  -> read_integer(data, pos, f.n)
      [] f.kind = "float"    -> read_float(data, pos, f.n)
      [] f.kind = "float2"   -> read_float2(data, pos, f.n)
      [] f.kind = "string"   -> read_string(data, pos, f.n)
      [] f.kind = "bytes_as_string" -> read_bytes_as_string(data, pos, f.n)

Fields(ok, vals, pos) == [ok |-> ok, vals |-> vals, pos |-> pos]

FieldsCons(val, rest) == Fields(rest.ok, <<val>> \o rest.vals, rest.pos)

RECURSIVE ReadFields(_, _, _)
RECURSIVE ReadFieldsAfter(_, _, _)
ReadFieldsAfter(data, layout, r) ==
    IF ~r.ok THEN Fields(FALSE, <<>>, r.pos)
    ELSE At(LAMBDA rest : FieldsCons(r.val, rest), ReadFields(data, r.pos, Tail(layout)))

ReadFields(data, pos, layout) ==
    IF layout = <<>> THEN Fields(TRUE, <<>>, pos)
    ELSE At(LAMBDA r : ReadFieldsAfter(data, layout, r),
            ReadField(data, pos, Head(layout)))

----------------------------------------------------------------------------
(* gzip: a member holding one stored (uncompressed) deflate block.  The    *)
(* CRC-32 field is carried as four zero bytes and is not verified.         *)

U16LE(n) == <<n % 256, (n \div 256) % 256>>

U32LE(n) == <<n % 256, (n \div 256) % 256, (n \div 65536) % 256, (n \div 16777216) % 256>>

GzipMagic == <<31, 139>>

GzipHeader == GzipMagic \o <<8, 0, 0, 0, 0, 0, 0, 255>>

GzipCompress(c) ==
    GzipHeader \o <<1>> \o U16LE(Len(c)) \o U16LE(65535 - Len(c)) \o c
               \o <<0, 0, 0, 0>> \o U32LE(Len(c))

\* what gzip.open(path).read() delivers: ok is FALSE where it raises BadGzipFile
StoredLen(raw) == IF Len(raw) >= 15 THEN raw[12] + 256 * raw[13] ELSE 0

GzipGood(raw, n) ==
    /\ Len(raw) = 23 + n
    /\ SubSeq(raw, 1, 10) = GzipHeader
    /\ raw[11] = 1
    /\ SubSeq(raw, 14, 15) = U16LE(65535 - n)
    /\ SubSeq(raw, 20 + n, 23 + n) = U32LE(n)

GzipBody(raw, n) ==
    IF GzipGood(raw, n) THEN [ok |-> TRUE, data |-> SubSeq(raw, 16, 15 + n)]
    ELSE [ok |-> FALSE, data |-> <<>>]

GzipDecompress(raw) == At(LAMBDA n : GzipBody(raw, n), StoredLen(raw))

----------------------------------------------------------------------------
(* Replay.__init__: _open_vcr_file, _read_replay_info, _read_driver_list,  *)
(* _read_slices_header                                                      *)

\* gzip.open(file_path, "rb"): a stream over the decompressed data
GzipFile(z) == [kind |-> "gzip", ok |-> z.ok, data |-> z.data, pos |-> 0]

\* Replay._open_vcr_file after gz = vcr_file.read(2): a gzip file is closed
\* and reopened through gzip.open, any other file is returned as it is, the
\* two bytes (or the whole shorter file) already read
OpenAs(file, gz) ==
    IF gz = GzipMagic THEN At(LAMBDA z : GzipFile(z), GzipDecompress(file))
    ELSE [kind |-> "raw", ok |-> TRUE, data |-> file, pos |-> Len(gz)]

open_vcr_file(file) == At(LAMBDA gz : OpenAs(file, gz), ReadBytes(file, 0, 2))

\* header = self.vcr_file.read().find(b"\x0A") + 1
find_header(f) == At(LAMBDA bs : Find(bs, 10), ReadBytes(f.data, f.pos, -1)) + 1

\* Replay._read_session_info, after session_info = read_integer(file, 1)
session_type_of(session_type_number) ==
    IF session_type_number = 0 THEN "TEST_DAY"
    ELSE IF 1 <= session_type_number /\ session_type_number <= 4 THEN "PRACTICE"
    ELSE IF 5 <= session_type_number /\ session_type_number <= 8 THEN "QUALIFYING"
    ELSE IF session_type_number = 9 THEN "WARMUP"
    ELSE IF 10 <= session_type_number /\ session_type_number <= 13 THEN "RACE"
    ELSE "ValueError"

\* a variant that takes the flag from bit 6
is_private_of_bit6(session_info) == Val(BitAnd(Shr(session_info, 6), 1)) = 1

is_private_of(session_info) == Val(BitAnd(Shr(session_info, 7), 1)) = 1

SessionOf(session_info, session_type) ==
    [ok |-> session_type # "ValueError",
     session_type |-> session_type,
     is_private_session |-> is_private_of(session_info)]

read_session_info(session_info) ==
    SessionOf(session_info, session_type_of(Val(BitAnd(session_info, 15))))

\* the reads of Replay._read_replay_info after the seek, in file order
ReplayInfoLayout ==
    << Field("bytes", 4),      \* 1  isr tag
       Field("bytes", 4),      \* 2  version
       Field("string", 4),     \* 3  rfm
       Field("bytes", 4),      \* 4  unknown
       Field("string", 4),     \* 5  mod_info
       Field("string", 4),     \* 6  scn_filename
       Field("string", 4),     \* 7  aiw_filename
       Field("string", 2),     \* 8  mod_name
       Field("string", 2),     \* 9  mod_version
       Field("string", 2),     \* 10 mod_uid
       Field("string", 2),     \* 11 track_path
       Field("bytes", 1),      \* 12 unknown
       Field("integer", 1) >>  \* 13 session_info

\* what _read_replay_info comes to: the exception it raises or "none", the
\* session_info byte when it was read, the file position, the ReplayInfo
InfoResult(err, session_info, pos, replay_info) ==
    [error |-> err, session_info |-> session_info, pos |-> pos, info |-> replay_info]

\* the ReplayInfo(...) constructed at the end of _read_replay_info
ReplayInfo(v, session) ==
    [version |-> v[2],
     rfm |-> v[3],
     mod_info |-> v[5],
     slice_count |-> 0,
     event_count_total |-> 0,
     time_start |-> 0,
     time_end |-> 0,
     scn_filename |-> v[6],
     aiw_filename |-> v[7],
     mod_name |-> v[8],
     mod_version |-> v[9],
     mod_uid |-> v[10],
     track_path |-> v[11],
     session_type |-> session.session_type,
     is_private_session |-> session.is_private_session]

\* the session type is decided, then the 67 unknown bytes are read
ReplayInfoWith(data, r, session) ==
    IF ~session.ok
    THEN InfoResult("ValueError", Val(r.vals[13]), r.pos, <<>>)
    ELSE InfoResult("none", Val(r.vals[13]), read_bytes(data, r.pos, 67).pos,
                    <<ReplayInfo(r.vals, session)>>)

ReplayInfoOf(data, r) ==
    IF ~r.ok THEN InfoResult("UnicodeDecodeError", -1, r.pos, <<>>)
    ELSE At(LAMBDA session : ReplayInfoWith(data, r, session),
            read_session_info(r.vals[13]))

\* Replay._read_replay_info from the seek on
read_replay_info(data, header) ==
    At(LAMBDA r : ReplayInfoOf(data, r), ReadFields(data, header, ReplayInfoLayout))

\* the reads of one iteration of the loop of Replay._read_driver_list
DriverLayout ==
    << Field("integer", 1),            \* 1  num
       Field("string", 1),             \* 2  name
       Field("string", 1),             \* 3  codriver_name
       Field("string", 2),             \* 4  vehicle_name
       Field("string", 2),             \* 5  vehicle_version
       Field("string", 2),             \* 6  vehicle_uid
       Field("bytes_as_string", 32),   \* 7  veh_filename
       Field("bytes", 48),             \* 8  unknown
       Field("float", 4),              \* 9  time_enter
       Field("float", 4) >>            \* 10 time_exit

\* the Driver(...) constructed in the loop
Driver(v) ==
    [num |-> Val(v[1]),
     name |-> v[2],
     codriver_name |-> v[3],
     vehicle_name |-> v[4],
     vehicle_uid |-> v[6],
     vehicle_version |-> v[5],
     veh_filename |-> v[7],
     time_enter |-> v[9],
     time_exit |-> v[10]]

DriverList(ok, pos, list) == [ok |-> ok, pos |-> pos, drivers |-> list]

DriversCons(driver, rest) == DriverList(rest.ok, rest.pos, <<driver>> \o rest.drivers)

\* the loop of Replay._read_driver_list: count records from pos on
RECURSIVE read_drivers(_, _, _)
RECURSIVE DriversAfter(_, _, _)
DriversAfter(data, count, r) ==
    IF ~r.ok THEN DriverList(FALSE, r.pos, <<>>)
    ELSE At(LAMBDA rest : DriversCons(Driver(r.vals), rest),
            read_drivers(data, r.pos, count - 1))

read_drivers(data, pos, count) ==
    IF count = 0 THEN DriverList(TRUE, pos, <<>>)
    ELSE At(LAMBDA r : DriversAfter(data, count, r),
            ReadFields(data, pos, DriverLayout))

\* Replay._read_driver_list
DriverListAt(data, driver_count) ==
    read_drivers(data, driver_count.pos, Val(driver_count.val))

read_driver_list(data, pos) ==
    At(LAMBDA driver_count : DriverListAt(data, driver_count), read_integer(data, pos, 4))

\* the reads of Replay._read_slices_header
SlicesHeaderLayout ==
    << Field("integer", 4), Field("integer", 4), Field("float", 4), Field("float", 4) >>

NoGen == [state |-> "none", slice |-> 0, time |-> 0, count |-> 0, ev |-> 0]

NoLocals == [header |-> -1, session_info |-> -1]

\* self.vcr_file = Replay._open_vcr_file(file_path)
OpenVcrFile ==
    /\ pc = "open"
    /\ vcr_file' = open_vcr_file(disk)
    /\ pc' = "info"
    /\ UNCHANGED <<storage, content, disk, info, drivers, gen, yielded, trace,
                   error, plan, locals>>

\* self.info = self._read_replay_info()
ReadReplayInfo ==
    /\ pc = "info"
    /\ IF ~vcr_file.ok
       THEN /\ pc' = "failed"
            /\ error' = "BadGzipFile"
            /\ UNCHANGED <<vcr_file, info, locals>>
       ELSE \E header \in {find_header(vcr_file)} :
            \E r \in {read_replay_info(vcr_file.data, header)} :
                /\ vcr_file' = [vcr_file EXCEPT !.pos = r.pos]
                /\ locals' = [header |-> header, session_info |-> r.session_info]
                /\ info' = r.info
                /\ error' = r.error
                /\ pc' = IF r.error = "none" THEN "drivers" ELSE "failed"
    /\ UNCHANGED <<storage, content, disk, drivers, gen, yielded, trace, plan>>

\* self.drivers = self._read_driver_list()
ReadDriverList ==
    /\ pc = "drivers"
    /\ \E r \in {read_driver_list(vcr_file.data, vcr_file.pos)} :
           /\ vcr_file' = [vcr_file EXCEPT !.pos = r.pos]
           /\ drivers' = r.drivers
           /\ error' = IF r.ok THEN "none" ELSE "UnicodeDecodeError"
           /\ pc' = IF r.ok THEN "slices" ELSE "failed"
    /\ UNCHANGED <<storage, content, disk, info, gen, yielded, trace, plan, locals>>

\* self._read_slices_header(); the Replay is constructed and its events
\* property makes the generator
ReadSlicesHeader ==
    /\ pc = "slices"
    /\ \E r \in {ReadFields(vcr_file.data, vcr_file.pos, SlicesHeaderLayout)} :
           /\ info' = <<[info[1] EXCEPT !.slice_count = Val(r.vals[1]),
                                        !.event_count_total = Val(r.vals[2]),
                                        !.time_start = r.vals[3],
                                        !.time_end = r.vals[4]]>>
           /\ vcr_file' = [vcr_file EXCEPT !.pos = r.pos]
    /\ pc' = "ready"
    /\ gen' = [NoGen EXCEPT !.state = "running"]
    /\ UNCHANGED <<storage, content, disk, drivers, yielded, trace, error, plan, locals>>

----------------------------------------------------------------------------
(* events.py: the per-event decoders.  Each works on its own BytesIO over  *)
(* the event's payload: data is the payload, its cursor starts at 0.  The  *)
(* result says whether __post_init__ returned (ok) or raised, where the    *)
(* BytesIO cursor ended, and the fields it set.                            *)

Bit(x, k) == Val(BitAnd(Shr(x, k), 1)) # 0

Built(ok, cursor, fields) == [ok |-> ok, cursor |-> cursor, fields |-> fields]

\* UnknownEvent has no __post_init__: data is left untouched
UnknownEvent(event_type, size, data) == Built(TRUE, 0, <<>>)

LightFields(r) == Built(TRUE, r.pos, [light_state |-> Val(r.vals[1])])

LightEvent(event_type, size, data) ==
    At(LAMBDA r : LightFields(r), ReadFields(data, 0, <<Field("integer", 1)>>))

GarageFields(r) == Built(TRUE, r.pos, [timestamp |-> r.vals[1]])

GarageEvent(event_type, size, data) ==
    At(LAMBDA r : GarageFields(r), ReadFields(data, 0, <<Field("float", 4)>>))

CheckpointFields(r) ==
    Built(TRUE, r.pos,
          [lap_or_sector_time |-> r.vals[1],
           timestamp |-> r.vals[2],
           lap |-> Val(r.vals[3]),
           sector |-> Val(BitAnd(Shr(r.vals[4], 6), 3))])

CheckpointEvent(event_type, size, data) ==
    At(LAMBDA r : CheckpointFields(r),
       ReadFields(data, 0, <<Field("float", 4), Field("float", 4),
                             Field("integer", 1), Field("integer", 1)>>))

PitLaneFields(r) == Built(TRUE, r.pos, [action |-> Val(r.vals[1])])

PitLaneEvent(event_type, size, data) ==
    At(LAMBDA r : PitLaneFields(r), ReadFields(data, 0, <<Field("integer", 1)>>))

OvertakeFields(r) == Built(TRUE, r.pos, [standings |-> r.vals[2]])

OvertakeEvent(event_type, size, data) ==
    At(LAMBDA r : OvertakeFields(r),
       ReadFields(data, 0, <<Field("bytes", 21), Field("bytes", size - 21)>>))

\* the reads of TelemetryEvent.__post_init__
TelemetryLayout ==
    << Field("integer", 4),    \* 1  info1
       Field("integer", 4),    \* 2  info2
       Field("integer", 5),    \* 3  speed_info
       Field("bytes", 25),     \* 4  unknown
       Field("integer", 1),    \* 5  tc_brakes
       Field("float2", 4),     \* 6  pos_x
       Field("float2", 4),     \* 7  pos_y
       Field("float2", 4),     \* 8  pos_z
       Field("float2", 4),     \* 9  rot_x
       Field("float2", 4),     \* 10 rot_y
       Field("float2", 4) >>   \* 11 rot_z

TelemetryRecord(event_type, info1, info2, tc_brakes, v) ==
    [gear |-> event_type - 8,
     steer_yaw |-> Val(BitAnd(info1, 127)),
     throttle |-> Val(BitAnd(Shr(info1, 11), 63)),
     engine_rpm |-> Val(Shr(info1, 18)),
     in_pit |-> Bit(info1, 17),
     horn |-> Bit(info1, 10),
     acceleration |-> Val(BitAnd(Shr(info2, 24), 255)),
     following |-> Bit(info2, 23),
     warning_light |-> Bit(info2, 22),
     driver_visible |-> Bit(info2, 21),
     head_light |-> Bit(info2, 20),
     current_driver |-> Val(BitAnd(Shr(info2, 18), 3)),
     dpart_debris11 |-> Bit(info2, 7),
     dpart_debris10 |-> Bit(info2, 6),
     dpart_debris9 |-> Bit(info2, 5),
     dpart_debris8 |-> Bit(info2, 4),
     dpart_debris7 |-> Bit(info2, 3),
     dpart_debris6 |-> Bit(info2, 2),
     dpart_debris5 |-> Bit(info2, 1),
     dpart_debris4 |-> Bit(info2, 0),
     dpart_debris3 |-> Bit(info2, 31),
     dpart_debris2 |-> Bit(info2, 30),
     dpart_debris1 |-> Bit(info2, 29),
     dpart_debris0 |-> Bit(info2, 28),
     dpart_rwing |-> Bit(info2, 27),
     dpart_fwing |-> Bit(info2, 26),
     dpart_rr |-> Bit(info2, 25),
     dpart_rl |-> Bit(info2, 24),
     dpart_fr |-> Bit(info2, 23),
     dpart_fl |-> Bit(info2, 22),
     tc_level |-> Val(Shr(tc_brakes, 6)),
     brakes |-> Val(BitAnd(tc_brakes, 63)),
     pos_x |-> v[6], pos_y |-> v[7], pos_z |-> v[8],
     rot_x |-> v[9], rot_y |-> v[10], rot_z |-> v[11]]

\* a read_float2 that gets fewer than 4 bytes raises struct.error and
\* __post_init__ does not return
TelemetryFields(event_type, r) ==
    IF ~r.ok THEN Built(FALSE, r.pos, <<>>)
    ELSE Built(TRUE, r.pos,
               TelemetryRecord(event_type, r.vals[1], r.vals[2], r.vals[5], r.vals))

TelemetryEvent(event_type, size, data) ==
    At(LAMBDA r : TelemetryFields(event_type, r), ReadFields(data, 0, TelemetryLayout))

\* the dict _EVENT_TYPES
EVENT_TYPES ==
    (<<0, 7>> :> "TelemetryEvent") @@ (<<0, 8>> :> "TelemetryEvent") @@
    (<<0, 9>> :> "TelemetryEvent") @@ (<<0, 10>> :> "TelemetryEvent") @@
    (<<0, 11>> :> "TelemetryEvent") @@ (<<0, 12>> :> "TelemetryEvent") @@
    (<<0, 13>> :> "TelemetryEvent") @@ (<<0, 14>> :> "TelemetryEvent") @@
    (<<0, 15>> :> "TelemetryEvent") @@ (<<0, 16>> :> "TelemetryEvent") @@
    (<<1, 10>> :> "LightEvent") @@
    (<<1, 7>> :> "GarageEvent") @@
    (<<3, 6>> :> "CheckpointEvent") @@
    (<<5, 2>> :> "PitLaneEvent") @@
    (<<3, 48>> :> "OvertakeEvent")

\* a variant that looks the pair up as (event_type, event_class)
dispatch_swapped(event_class, event_type) ==
    IF <<event_type, event_class>> \in DOMAIN EVENT_TYPES
    THEN EVENT_TYPES[<<event_type, event_class>>]
    ELSE "UnknownEvent"

\* _EVENT_TYPES.get((event_class, event_type), events.UnknownEvent)
dispatch(event_class, event_type) ==
    IF <<event_class, event_type>> \in DOMAIN EVENT_TYPES
    THEN EVENT_TYPES[<<event_class, event_type>>]
    ELSE "UnknownEvent"

\* event(...): the dataclass constructor runs the variant's __post_init__
construct(variant, event_type, size, data) ==
    CASE variant = "TelemetryEvent"  -> TelemetryEvent(event_type, size, data)
      [] variant = "LightEvent"      -> LightEvent(event_type, size, data)
      [] variant = "GarageEvent"     -> GarageEvent(event_type, size, data)
      [] variant = "CheckpointEvent" -> CheckpointEvent(event_type, size, data)
      [] variant = "PitLaneEvent"    -> PitLaneEvent(event_type, size, data)
      [] variant = "OvertakeEvent"   -> OvertakeEvent(event_type, size, data)
      [] OTHER                       -> UnknownEvent(event_type, size, data)

----------------------------------------------------------------------------
(* Replay.events: the generator *)

event_size_of(event_header) == Val(BitAnd(Shr(event_header, 8), 511))

event_class_of(event_header) == Val(Shr(event_header, 29))

\* a variant that takes the type field one bit lower
event_type_of_shift16(event_header) == Val(BitAnd(Shr(event_header, 16), 63))

event_type_of(event_header) == Val(BitAnd(Shr(event_header, 17), 63))

driver_id_of(event_header) == Val(BitAnd(event_header, 255))

\* a variant that keeps 255 as a number
driver_of_raw(driver_id) == {driver_id}

\* driver_id if driver_id != 255 else None; None is the empty set, an int
\* v the set {v}
driver_of(driver_id) == IF driver_id # 255 THEN {driver_id} ELSE {}

\* the event object: the base fields, the BytesIO (its content and where
\* the decoder left its cursor) and the variant's own fields
Event(variant, event_class, event_type, time, driver_id, size, event_data, built) ==
    [ok |-> built.ok,
     pos |-> event_data.pos,
     driver_id |-> driver_id,
     event |-> [variant |-> variant,
                event_class |-> event_class,
                event_type |-> event_type,
                time |-> time,
                driver |-> driver_of(driver_id),
                size |-> size,
                data |-> event_data.val,
                cursor |-> built.cursor,
                fields |-> built.fields]]

EventOf(variant, event_class, event_type, time, driver_id, size, event_data) ==
    At(LAMBDA built : Event(variant, event_class, event_type, time, driver_id, size,
                            event_data, built),
       construct(variant, event_type, size, event_data.val))

\* a variant that does not skip the unknown byte
EventUnpacked_noskip(data, pos, time, event_size, event_class, event_type, driver_id) ==
    At(LAMBDA event_data : EventOf(dispatch(event_class, event_type), event_class,
                                   event_type, time, driver_id, event_size, event_data),
       read_bytes(data, pos, event_size))

\* the inner loop body after the header word is unpacked: skip the unknown
\* byte, read event_size bytes, pick the variant, construct the event
EventUnpacked(data, pos, time, event_size, event_class, event_type, driver_id) ==
    At(LAMBDA event_data : EventOf(dispatch(event_class, event_type), event_class,
                                   event_type, time, driver_id, event_size, event_data),
       read_bytes(data, read_bytes(data, pos, 1).pos, event_size))

\* a variant that gives every event the time 0
EventAt_notime(data, time, event_header) ==
    EventUnpacked(data, event_header.pos, 0,
                  event_size_of(event_header.val),
                  event_class_of(event_header.val),
                  event_type_of(event_header.val),
                  driver_id_of(event_header.val))

EventAt(data, time, event_header) ==
    EventUnpacked(data, event_header.pos, time,
                  event_size_of(event_header.val),
                  event_class_of(event_header.val),
                  event_type_of(event_header.val),
                  driver_id_of(event_header.val))

\* one pass of the inner loop body
read_event(data, pos, slice_time) ==
    At(LAMBDA event_header : EventAt(data, slice_time, event_header),
       read_integer(data, pos, 4))

\* the outer loop body up to the inner loop: the slice's time and count
EventsSlice ==
    /\ pc = "ready"
    /\ gen.state = "running"
    /\ gen.ev = gen.count
    /\ gen.slice < info[1].slice_count
    /\ \E r \in {ReadFields(vcr_file.data, vcr_file.pos,
                            <<Field("float", 4), Field("integer", 2)>>)} :
           /\ gen' = [gen EXCEPT !.slice = gen.slice + 1,
                                 !.time = r.vals[1],
                                 !.count = Val(r.vals[2]),
                                 !.ev = 0]
           /\ vcr_file' = [vcr_file EXCEPT !.pos = r.pos]
    /\ UNCHANGED <<storage, content, disk, pc, info, drivers, yielded, trace,
                   error, locals, plan>>

\* the inner loop body: the event is yielded, or its constructor raises
\* inside the generator, which ends the generator
EventsEvent ==
    /\ pc = "ready"
    /\ gen.state = "running"
    /\ gen.ev < gen.count
    /\ \E r \in {read_event(vcr_file.data, vcr_file.pos, gen.time)} :
           /\ vcr_file' = [vcr_file EXCEPT !.pos = r.pos]
           /\ trace' = <<[start |-> vcr_file.pos,
                          left |-> Left(vcr_file.data, vcr_file.pos),
                          after |-> r.pos,
                          slice |-> gen.slice,
                          index |-> gen.ev,
                          raised |-> ~r.ok,
                          driver_id |-> r.driver_id,
                          event |-> r.event]>>
           /\ yielded' = IF r.ok THEN Append(yielded, r.event) ELSE yielded
           /\ gen' = IF r.ok THEN [gen EXCEPT !.ev = gen.ev + 1]
                     ELSE [gen EXCEPT !.state = "raised"]
           /\ error' = IF r.ok THEN "none" ELSE "struct.error"
    /\ UNCHANGED <<storage, content, disk, pc, info, drivers, locals, plan>>

\* both loops are exhausted: the generator returns (StopIteration)
EventsStop ==
    /\ pc = "ready"
    /\ gen.state = "running"
    /\ gen.ev = gen.count
    /\ gen.slice >= info[1].slice_count
    /\ gen' = [gen EXCEPT !.state = "stopped"]
    /\ error' = "none"
    /\ UNCHANGED <<storage, content, disk, vcr_file, pc, info, drivers, yielded,
                   trace, locals, plan>>

\* next() on the generator after an exception left it: it is finished and
\* gives StopIteration, nothing more is read or yielded
EventsResume ==
    /\ pc = "ready"
    /\ gen.state = "raised"
    /\ gen' = [gen EXCEPT !.state = "resumed"]
    /\ UNCHANGED <<storage, content, disk, vcr_file, pc, info, drivers, yielded,
                   trace, error, locals, plan>>

Next ==
    \/ OpenVcrFile
    \/ ReadReplayInfo
    \/ ReadDriverList
    \/ ReadSlicesHeader
    \/ EventsSlice
    \/ EventsEvent
    \/ EventsStop
    \/ EventsResume

----------------------------------------------------------------------------
(* The files the model reads: a text line ending in 0x0A, the replay       *)
(* header, the driver list, the slices header and the slices, laid out as  *)
(* the readers above expect them.                                           *)

Storage == {"plain", "gzip"}

LenPrefixed(width, str) ==
    (IF width = 4 THEN U32LE(Len(str)) ELSE IF width = 2 THEN U16LE(Len(str))
     ELSE <<Len(str)>>) \o str

HeaderBytes(session_byte) ==
    <<73, 82, 83, 68>>                    \* tag
    \o <<49, 46, 49, 53>>                 \* version
    \o LenPrefixed(4, <<114, 102>>)       \* rfm
    \o Zeros(4)
    \o LenPrefixed(4, <<195, 169>>)       \* mod_info, two bytes for one code point
    \o LenPrefixed(4, <<115>>)            \* scn_filename
    \o LenPrefixed(4, <<>>)               \* aiw_filename
    \o LenPrefixed(2, <<109, 0, 120>>)    \* mod_name, NUL inside
    \o LenPrefixed(2, <<>>)               \* mod_version
    \o LenPrefixed(2, <<117>>)            \* mod_uid
    \o LenPrefixed(2, <<116>>)            \* track_path
    \o <<0>>
    \o <<session_byte>>
    \o Zeros(67)

DriverBytes(num) ==
    <<num>>
    \o LenPrefixed(1, <<65>>)             \* name
    \o LenPrefixed(1, <<>>)               \* codriver_name
    \o LenPrefixed(2, <<99>>)             \* vehicle_name
    \o LenPrefixed(2, <<>>)               \* vehicle_version
    \o LenPrefixed(2, <<>>)               \* vehicle_uid
    \o (<<118>> \o Zeros(31))             \* veh_filename
    \o Zeros(48)
    \o U32LE(1) \o U32LE(2)               \* time_enter, time_exit

RECURSIVE DriverListBytes(_)
DriverListBytes(n) ==
    IF n = 0 THEN <<>> ELSE DriverListBytes(n - 1) \o DriverBytes(n)

\* the header word of an event as its four little-endian bytes: class in
\* bits 29-31, rest in bits 23-28, type in bits 17-22, size in bits 8-16,
\* driver in bits 0-7
PackHeader(e) ==
    <<e.driver,
      e.size % 256,
      (e.size \div 256) + 2 * e.type + 128 * (e.rest % 2),
      (e.rest \div 2) + 32 * e.class>>

Payload(size) == [i \in 1..size |-> (7 * i) % 256]

EventBytes(e) == PackHeader(e) \o <<e.reserved>> \o Payload(e.size)

RECURSIVE ConcatEvents(_)
ConcatEvents(es) ==
    IF es = <<>> THEN <<>> ELSE EventBytes(Head(es)) \o ConcatEvents(Tail(es))

SliceTime(i) == 257 * i

RECURSIVE SlicesBytes(_, _)
SlicesBytes(slices, i) ==
    IF i > Len(slices) THEN <<>>
    ELSE U32LE(SliceTime(i)) \o U16LE(Len(slices[i])) \o ConcatEvents(slices[i])
         \o SlicesBytes(slices, i + 1)

RECURSIVE TotalEvents(_)
TotalEvents(slices) ==
    IF slices = <<>> THEN 0 ELSE Len(Head(slices)) + TotalEvents(Tail(slices))

\* the bytes that follow the last slice
Junk(n) == [i \in 1..n |-> 1]

\* p: [pre, session, ndrivers, slices, cut, junk]
WholeOf(p) ==
    p.pre \o HeaderBytes(p.session) \o <<p.ndrivers, 0, 0, 0>>
          \o DriverListBytes(p.ndrivers)
          \o U32LE(Len(p.slices)) \o U32LE(TotalEvents(p.slices))
          \o U32LE(SliceTime(1)) \o U32LE(SliceTime(Len(p.slices)))
          \o SlicesBytes(p.slices, 1)
          \o Junk(p.junk)

\* the last p.cut bytes are missing from the file
CutOff(whole, cut) == SubSeq(whole, 1, Len(whole) - cut)

ContentOf(p) == CutOff(WholeOf(p), p.cut)

Closed == [kind |-> "closed", ok |-> TRUE, data |-> <<>>, pos |-> 0]

InitWith(st, p) ==
    /\ storage = st
    /\ plan = p
    /\ content = ContentOf(p)
    /\ disk = IF st = "gzip" THEN GzipCompress(ContentOf(p)) ELSE ContentOf(p)
    /\ vcr_file = Closed
    /\ pc = "open"
    /\ info = <<>>
    /\ drivers = <<>>
    /\ gen = NoGen
    /\ yielded = <<>>
    /\ trace = <<>>
    /\ error = "none"
    /\ locals = NoLocals

Ev(class, type, size, driver) ==
    [class |-> class, type |-> type, size |-> size, driver |-> driver,
     rest |-> 0, reserved |-> 170]

LightEv == Ev(1, 10, 1, 255)
ShortTelemetryEv == Ev(0, 7, 10, 1)

\* the text line in front of the header
PreBytes == {10, 72, 31, 139}
PreLines == UNION {[1..k -> PreBytes] : k \in 0..MaxPre}

TwoPlans == {<<<<LightEv>>>>, <<<<ShortTelemetryEv>>>>}

\* files that differ in the text before the header and in how they are stored
InitOpen ==
    \E st \in Storage, pre \in PreLines, sl \in TwoPlans :
        InitWith(st, [pre |-> pre, session |-> 138, ndrivers |-> 1, slices |-> sl,
                      cut |-> 0, junk |-> 0])

SpecOpen == InitOpen /\ [][Next]_vars

\* files that differ in the session-info byte
InitSession ==
    \E st \in Storage, b \in Byte, sl \in TwoPlans :
        InitWith(st, [pre |-> <<72, 10>>, session |-> b, ndrivers |-> 1,
                      slices |-> sl, cut |-> 0, junk |-> 0])

SpecSession == InitSession /\ [][Next]_vars

\* files with one slice of one event, whose header word differs
WordSizes == {0, 256, 511}
WordDrivers == {0, 254, 255}
WordRests == {0, 63}

InitWord ==
    \E class \in 0..7, type \in 0..63, size \in WordSizes, driver \in WordDrivers,
       rest \in WordRests :
        InitWith("gzip", [pre |-> <<10>>, session |-> 0, ndrivers |-> 0,
                          slices |-> <<<<[class |-> class, type |-> type,
                                          size |-> size, driver |-> driver,
                                          rest |-> rest, reserved |-> 0]>>>>,
                          cut |-> 0, junk |-> 0])

SpecWord == InitWord /\ [][Next]_vars

\* files that differ in their slices and events, whole, cut short, or
\* followed by more bytes
StreamEvents ==
    { Ev(2, 2, 2, 3),        \* unknown
      LightEv,
      Ev(0, 9, 63, 0),       \* telemetry, the payload its decoder reads
      ShortTelemetryEv,
      Ev(3, 48, 3, 255) }    \* overtake, shorter than the 21 bytes skipped

RECURSIVE SumTo(_, _)
SumTo(c, k) == IF k = 0 THEN 0 ELSE c[k] + SumTo(c, k - 1)

\* the slices with c[i] events each, taken in order from es
SplitBy(c, es) ==
    [i \in 1..Len(c) |-> SubSeq(es, SumTo(c, i - 1) + 1, SumTo(c, i))]

Shapes ==
    UNION {{c \in [1..k -> 0..MaxEvents] : SumTo(c, k) <= MaxEvents} : k \in 0..MaxSlices}

Tails ==
    {[cut |-> c, junk |-> 0] : c \in 0..MaxCut} \cup {[cut |-> 0, junk |-> 6]}

InitStream ==
    \E c \in Shapes, t \in Tails :
        \E es \in [1..SumTo(c, Len(c)) -> StreamEvents] :
            InitWith("gzip", [pre |-> <<10>>, session |-> 0, ndrivers |-> 0,
                              slices |-> SplitBy(c, es),
                              cut |-> t.cut, junk |-> t.junk])

SpecStream == InitStream /\ [][Next]_vars

\* whole files whose events all decode, and one whose telemetry event is
\* short; the constructor runs to its end and the consumer keeps calling
\* next() until the iteration is over, so no enabled step is put off forever
FairEvents == {Ev(2, 2, 2, 3), LightEv, Ev(0, 9, 63, 0)}

FairTails == {[cut |-> 0, junk |-> 0], [cut |-> 0, junk |-> 6]}

InitFair ==
    \/ \E c \in Shapes, t \in FairTails :
           \E es \in [1..SumTo(c, Len(c)) -> FairEvents] :
               InitWith("gzip", [pre |-> <<10>>, session |-> 0, ndrivers |-> 0,
                                 slices |-> SplitBy(c, es),
                                 cut |-> t.cut, junk |-> t.junk])
    \/ InitWith("gzip", [pre |-> <<10>>, session |-> 0, ndrivers |-> 0,
                         slices |-> <<<<ShortTelemetryEv, LightEv>>>>,
                         cut |-> 0, junk |-> 0])

FairStream == InitFair /\ [][Next]_vars /\ WF_vars(Next)

----------------------------------------------------------------------------
(* The properties checked.                                                  *)

\* the event of a one-event file and the place its header word is read from
WordEvent == plan.slices[1][1]

WordBytes == SubSeq(vcr_file.data, trace[1].start + 1, trace[1].start + 4)

\* C1: the header word built from (class, type, size, driver), whatever its
\* other bits hold, is unpacked by the events iterator to exactly that class,
\* type, size and raw driver.
C1_UnpackInvertsPack ==
    trace # <<>> =>
        /\ WordBytes = PackHeader(WordEvent)
        /\ trace[1].event.event_class = WordEvent.class
        /\ trace[1].event.event_type = WordEvent.type
        /\ trace[1].event.size = WordEvent.size
        /\ trace[1].driver_id = WordEvent.driver

\* every field at its largest, the remaining bits all set
C1_Witness ==
    /\ trace # <<>>
    /\ WordBytes = <<254, 255, 255, 255>>
    /\ trace[1].event.event_class = 7
    /\ trace[1].event.event_type = 63
    /\ trace[1].event.size = 511
    /\ trace[1].driver_id = 254

\* the payload bytes of the event last read, as they are in the file
PayloadInFile ==
    SubSeq(vcr_file.data, trace[1].start + 6, trace[1].start + 5 + trace[1].event.size)

Variants ==
    {"TelemetryEvent", "LightEvent", "GarageEvent", "CheckpointEvent",
     "PitLaneEvent", "OvertakeEvent", "UnknownEvent"}

VariantIff(name, class, types) ==
    (trace[1].event.variant = name)
        <=> (trace[1].event.event_class = class /\ trace[1].event.event_type \in types)

\* C2: every (class, type) selects exactly one decoder and none is an error:
\* Telemetry iff class 0 and type 7..16, Light iff (1,10), Garage iff (1,7),
\* Checkpoint iff (3,6), PitLane iff (5,2), Overtake iff (3,48), Unknown
\* otherwise, and Unknown keeps its payload verbatim and is yielded.
C2_DispatchTotal ==
    trace # <<>> =>
        /\ trace[1].event.variant \in Variants
        /\ VariantIff("TelemetryEvent", 0, 7..16)
        /\ VariantIff("LightEvent", 1, {10})
        /\ VariantIff("GarageEvent", 1, {7})
        /\ VariantIff("CheckpointEvent", 3, {6})
        /\ VariantIff("PitLaneEvent", 5, {2})
        /\ VariantIff("OvertakeEvent", 3, {48})
        /\ trace[1].event.variant = "UnknownEvent" =>
               /\ ~trace[1].raised
               /\ yielded = <<trace[1].event>>
               /\ trace[1].event.data = PayloadInFile
               /\ trace[1].event.cursor = 0
               /\ trace[1].event.fields = <<>>

\* a pair outside the table, with class and type of a table entry swapped,
\* is yielded as Unknown with its 256 payload bytes
C2_Witness ==
    /\ trace # <<>>
    /\ trace[1].event.event_class = 7
    /\ trace[1].event.event_type = 0
    /\ trace[1].event.variant = "UnknownEvent"
    /\ Len(trace[1].event.data) = 256
    /\ yielded = <<trace[1].event>>

\* _read_replay_info has run and the content has a 0x0A
HeaderSought ==
    /\ pc \notin {"open", "info"}
    /\ error # "BadGzipFile"
    /\ Find(content, 10) # -1

\* C3: for a file with a 0x0A, stored as gzip or plain, header decoding
\* starts one past the first 0x0A of the content.
C3_HeaderAfterFirstNewline ==
    HeaderSought => locals.header = Find(content, 10) + 1

\* the ReplayInfo, or the exception, that the same content gives when it is
\* stored gzip-compressed
InfoOfFile(f) == read_replay_info(f.data, find_header(f))

InfoOfGzip == InfoOfFile(open_vcr_file(GzipCompress(content)))

\* C8: content stored plain (not itself beginning with the gzip magic) and
\* the same content stored gzip-compressed give the same ReplayInfo.
C8_PlainEqualsGzip ==
    (pc \in {"drivers", "failed"} /\ ReadBytes(content, 0, 2) # GzipMagic) =>
        info = InfoOfGzip.info

SessionNames(nibble) ==
    IF nibble = 0 THEN "TEST_DAY"
    ELSE IF nibble \in 1..4 THEN "PRACTICE"
    ELSE IF nibble \in 5..8 THEN "QUALIFYING"
    ELSE IF nibble = 9 THEN "WARMUP"
    ELSE "RACE"

\* C4: of the session-info byte b read, the low nibble 0 gives TestDay, 1..4
\* Practice, 5..8 Qualifying, 9 Warmup, 10..13 Race; 14 and 15 raise and no
\* ReplayInfo is made; is_private_session is exactly bit 7 of b.  In a
\* gzip file the byte read is the byte stored in the header.
C4_SessionInfo ==
    (pc \notin {"open", "info"} /\ locals.session_info # -1) =>
        /\ locals.session_info \in Byte
        /\ storage = "gzip" => locals.session_info = plan.session
        /\ IF locals.session_info % 16 \in {14, 15}
           THEN /\ pc = "failed"
                /\ error = "ValueError"
                /\ info = <<>>
           ELSE /\ info # <<>>
                /\ info[1].session_type = SessionNames(locals.session_info % 16)
                /\ info[1].is_private_session = (locals.session_info >= 128)

\* 0x4A: nibble 10 with bit 6 set and bit 7 clear is Race, not private
C4_Witness ==
    /\ pc = "drivers"
    /\ storage = "gzip"
    /\ locals.session_info = 74
    /\ info[1].session_type = "RACE"
    /\ info[1].is_private_session = FALSE

\* the events of the plan in file order, each with the index of its slice
RECURSIVE FlatFrom(_, _)
FlatFrom(slices, i) ==
    IF i > Len(slices) THEN <<>>
    ELSE [j \in 1..Len(slices[i]) |-> [slice |-> i, e |-> slices[i][j]]]
         \o FlatFrom(slices, i + 1)

Flat == FlatFrom(plan.slices, 1)

\* a telemetry event has the 63 payload bytes its decoder reads
Decodable(e) == dispatch(e.class, e.type) = "TelemetryEvent" => e.size >= 63

\* the file holds every byte its slices declare and every event decodes
WellFormed ==
    /\ plan.cut = 0
    /\ \A k \in 1..Len(Flat) : Decodable(Flat[k].e)

YieldedIs(k) ==
    /\ yielded[k].event_class = Flat[k].e.class
    /\ yielded[k].event_type = Flat[k].e.type
    /\ yielded[k].size = Flat[k].e.size
    /\ yielded[k].data = Payload(Flat[k].e.size)
    /\ yielded[k].time = SliceTime(Flat[k].slice)

InOrder ==
    /\ Len(yielded) <= Len(Flat)
    /\ \A k \in 1..Len(yielded) : YieldedIs(k)
    /\ gen.state \in {"none", "running", "stopped"}
    /\ gen.state = "stopped" =>
           /\ Len(yielded) = Len(Flat)
           /\ gen.slice = Len(plan.slices)
           /\ vcr_file.pos = Len(content) - plan.junk

\* C5: on a well-formed stream the events yielded are those of the slices in
\* order of (slice, index in slice), each with the time of its slice; the
\* iteration, consumed to the end, terminates having yielded as many events
\* as the slices count and having read nothing after the last slice.
C5_AllEventsInOrder ==
    /\ [](WellFormed => InOrder)
    /\ (WellFormed ~> gen.state = "stopped")

\* two slices of one event each, then six more bytes in the file
C5_Witness ==
    /\ WellFormed
    /\ gen.state = "stopped"
    /\ Len(plan.slices) = 2
    /\ Len(yielded) = 2
    /\ yielded[1].time = SliceTime(1)
    /\ yielded[2].time = SliceTime(2)
    /\ plan.junk = 6
    /\ Left(vcr_file.data, vcr_file.pos) = 6

\* C6: the events iterator never yields an event whose payload buffer holds
\* fewer bytes than its size field.
C6_NoShortPayload ==
    \A k \in 1..Len(yielded) : Len(yielded[k].data) = yielded[k].size

\* C7: after one event's decoder has failed, the sequence consumed to its
\* end has produced the remaining events of the stream.
C7_FailureScoped ==
    (gen.state = "resumed" /\ plan.cut = 0) =>
        Len(yielded) = Cardinality({k \in 1..Len(Flat) : Decodable(Flat[k].e)})

\* C9: the driver of a yielded event is None for the raw byte 255 and the
\* raw byte itself, within 0..254, otherwise, whatever the variant.
C9_DriverNoneOrByte ==
    /\ \A k \in 1..Len(yielded) :
           yielded[k].driver = {} \/ \E v \in 0..254 : yielded[k].driver = {v}
    /\ yielded # <<>> =>
           /\ yielded[1] = trace[1].event
           /\ trace[1].driver_id = WordEvent.driver
           /\ trace[1].driver_id = 255 => yielded[1].driver = {}
           /\ trace[1].driver_id # 255 => yielded[1].driver = {trace[1].driver_id}

\* an Unknown event with the raw driver byte 255
C9_Witness ==
    /\ yielded # <<>>
    /\ trace[1].driver_id = 255
    /\ yielded[1].variant = "UnknownEvent"
    /\ yielded[1].driver = {}

\* C10: an event read while 5 + size bytes remain moves the file position by
\* exactly 5 + size, whichever decoder runs and whether it reads less than
\* its payload, all of it, or tries for more; the decoder works on the size
\* bytes of its own payload and its cursor stays within them.
C10_AdvanceByFivePlusSize ==
    trace # <<>> =>
        /\ trace[1].left >= 5 + trace[1].event.size =>
               /\ trace[1].after = trace[1].start + 5 + trace[1].event.size
               /\ trace[1].event.data = PayloadInFile
        /\ Len(trace[1].event.data) <= trace[1].event.size
        /\ trace[1].event.cursor \in 0..Len(trace[1].event.data)

\* a telemetry decoder that tried for more than its 10 bytes and raised
C10_Witness ==
    /\ trace # <<>>
    /\ trace[1].raised
    /\ trace[1].event.variant = "TelemetryEvent"
    /\ trace[1].event.size = 10
    /\ trace[1].event.cursor = 10
    /\ trace[1].left >= 15
    /\ trace[1].after = trace[1].start + 15

====
